---- MODULE Spec2Model ----
(***************************************************************************)
(* Model of sitemap_generator.py: the asynchronous crawl (crawl_url and    *)
(* the generation loop of create_sitemap) and the sitemap encoder.         *)
(*                                                                         *)
(* A string is a sequence of tokens, so that parsing, formatting, suffix   *)
(* and substring tests are computed on the text: "https://example.com/a"   *)
(* is <<"https", ":", "//", "example.com", "/", "a">>.  The tokenisation   *)
(* is maximal munch ("//" before "/"), so equal strings are equal          *)
(* sequences.                                                              *)
(***************************************************************************)
EXTENDS Integers, Sequences, FiniteSets, Bags, TLC

\* ------------------------------------------------------------------ bounds
\* Largest max_depth a configuration may carry (sitemap_config.yaml).
MaxDepthCfg == 2
\* Largest max_urls_per_sitemap a configuration may carry.
MaxChunkCfg == 2
\* The deepest page and the number of pages the priority is computed for.
MaxRecordDepth == 9
MaxRecords == 2

\* ------------------------------------------------- strings and URL parsing
None == <<>>
ValueError == <<"!ValueError">>

SchemeToks == {"https", "http"}
NetlocEnd == {"/", "?", "#"}
PathEnd == {"?", "#"}

Last(s) == s[Len(s)]

\* The longest prefix of s holding no token of stop.
RECURSIVE TakeUntil(_, _)
TakeUntil(s, stop) ==
    IF s = <<>> \/ Head(s) \in stop THEN <<>>
    ELSE <<Head(s)>> \o TakeUntil(Tail(s), stop)

DropN(s, n) == SubSeq(s, n + 1, Len(s))

\* urllib.parse.urlparse, as far as clean_url reads it: scheme, netloc, path.
\* A netloc with an unmatched "[" raises ValueError("Invalid IPv6 URL").
HasScheme(s) == Len(s) >= 2 /\ s[1] \in SchemeToks /\ s[2] = ":"
UrlScheme(s) == IF HasScheme(s) THEN <<s[1]>> ELSE <<>>
AfterScheme(s) == IF HasScheme(s) THEN DropN(s, 2) ELSE s
HasNetloc(s) == AfterScheme(s) # <<>> /\ Head(AfterScheme(s)) = "//"
UrlNetloc(s) ==
    IF HasNetloc(s) THEN TakeUntil(Tail(AfterScheme(s)), NetlocEnd) ELSE <<>>
AfterNetloc(s) ==
    IF HasNetloc(s) THEN DropN(AfterScheme(s), 1 + Len(UrlNetloc(s)))
    ELSE AfterScheme(s)
UrlPath(s) == TakeUntil(AfterNetloc(s), PathEnd)
ParseRaises(s) == \E i \in 1..Len(UrlNetloc(s)) : UrlNetloc(s)[i] = "[bad"

\* urllib.parse.urljoin for the two shapes of href the pages carry: a href
\* with a scheme is returned as it is, a rooted path replaces the path of
\* the base.  The href is parsed first, which can raise.
urljoin(base, href) ==
    IF ParseRaises(href) THEN ValueError
    ELSE IF HasScheme(href) THEN href
    ELSE UrlScheme(base) \o <<":", "//">> \o UrlNetloc(base) \o href

\* clean_url(url, base_url): f"{scheme}://{netloc}{path}", None when the
\* netloc of the formatted text differs from the netloc of base_url.
CleanText(url) == UrlScheme(url) \o <<":", "//">> \o UrlNetloc(url) \o UrlPath(url)

\* Variant: the formatted text is compared with itself.
SameNetlocSelf(clean, base_url) == UrlNetloc(clean) = UrlNetloc(clean)
SameNetloc(clean, base_url) == UrlNetloc(base_url) = UrlNetloc(clean)

clean_url(url, base_url) ==
    IF ParseRaises(url) THEN ValueError
    ELSE IF ~SameNetloc(CleanText(url), base_url) THEN None
    ELSE CleanText(url)

\* ------------------------------------------------------------ configuration
\* CONFIG, with the fields an optional sitemap_config.yaml may override
\* (load_config) drawn from bounded ranges.  The limiter is built from
\* requests_per_second alone; max_concurrent_requests is carried in the
\* mapping and read nowhere.
ExcludePatterns == {"login", "admin", "wp-admin", "logout"}
ValidExtensions == {".html", ".php", ".asp", ".aspx", ""}
BinarySuffixes == {".pdf", ".jpg", ".png", ".gif", ".zip", ".exe", ".docx"}

Configs ==
    [max_urls_per_sitemap : 1..MaxChunkCfg,
     max_concurrent_requests : {1},
     requests_per_second : {1},
     max_depth : 0..MaxDepthCfg,
     exclude_patterns : {ExcludePatterns},
     valid_extensions : {ValidExtensions}]

\* ------------------------------------------------------------------ inputs
\* What the user may type at the prompt.
SeedInputs ==
    { <<"https", ":", "//", "example.com">>,
      <<"https", ":", "//", "example.com", "/">>,
      <<"example.com">> }

\* The href attributes the pages of the site carry.
hAbout == <<"/", "about">>
hContact == <<"https", ":", "//", "example.com", "/", "contact">>
hExternal == <<"https", ":", "//", "external.com", "/", "page">>
hAdmin == <<"/", "admin">>
hPdf == <<"/", "file.pdf">>
hAboutQuery == <<"/", "about", "?", "q", "#", "top">>
hRoot == <<"/">>
hBad == <<"http", ":", "//", "[bad">>

\* The href of a <link rel="canonical">, None when the page has none.
CanonicalHrefs ==
    { None,
      <<"https", ":", "//", "example.com", "/">>,
      hContact, hExternal, hAbout, hBad }

\* The <a href> lists a page may hold, in document order.
LinkLists ==
    { <<>>,
      <<hAbout, hContact>>,
      <<hContact, hExternal, hAboutQuery>>,
      <<hAbout, hBad, hContact>>,
      <<hRoot, hAdmin, hPdf>> }

\* Facts about the text of the tokens: the exclusion patterns a token
\* contains, and the suffix a token ends with.
TokenContains(tok, pattern) == <<tok, pattern>> \in { <<"admin", "admin">> }
TokenSuffix(tok) == IF tok = "file.pdf" THEN ".pdf" ELSE ""

\* pattern in cleaned_url
Contains(url, pattern) == \E i \in 1..Len(url) : TokenContains(url[i], pattern)
\* cleaned_url.endswith(ext): every string ends with the empty string.
EndsWith(url, ext) == ext = "" \/ (url # <<>> /\ ext = TokenSuffix(Last(url)))
\* re.search(r'\.(pdf|jpg|png|gif|zip|exe|docx)$', cleaned_url, re.I)
BinarySuffix(url) == url # <<>> /\ TokenSuffix(Last(url)) \in BinarySuffixes

\* ------------------------------------------------------------------- state
VARIABLES
    pc,             \* where create_sitemap stands
    config,         \* the mapping load_config returned
    site_url,       \* the validated seed, None before validation
    output_dir,     \* the directory made for the run, None before mkdir
    robots_parser,  \* what check_robots_txt returned
    visited,        \* the set visited
    sitemap_urls,   \* the global list sitemap_urls
    tasks,          \* bag of the crawl_url calls as_completed has scheduled
    completed,      \* results of finished tasks the loop has not taken yet
    new_tasks,      \* bag of the crawl_url coroutines made for the next round
    limiter_level,  \* what the AsyncLimiter bucket holds
    files,          \* the files written under output_dir
    issued,         \* history: bag of <<url, depth>>, one per session.get
    marked,         \* history: <<url, depth>> a task added to visited for itself
    raised,         \* history: urls whose task reached the except clause
    contributed,    \* history: urls whose task returned a non-empty set
    rec_depth,      \* history: rec_depth[i] is the depth sitemap_urls[i] was made at
    skipped,        \* history: <<url, depth>> of the tasks the visited test turned away
    cross_host,     \* history: clean_url returned None for some href
    notice,         \* what the run last told its caller: a printed line or an exception
    generation,     \* history: the rounds of the while loop begun so far
    aliased,        \* history: [url, target, first] of the pages treated as aliases
    canonical_ignored \* history: a page naming a canonical target other than
                      \* itself was recorded under its own URL

vars == <<pc, config, site_url, output_dir, robots_parser, visited, sitemap_urls,
          tasks, completed, new_tasks, limiter_level, files, issued, marked,
          raised, contributed, rec_depth, skipped, cross_host, notice,
          generation, aliased, canonical_ignored>>

crawl_vars == <<visited, sitemap_urls, tasks, completed, new_tasks, limiter_level,
                issued, marked, raised, contributed, rec_depth, skipped, cross_host,
                generation, aliased, canonical_ignored>>

\* The history of the canonical declarations.
canon_vars == <<aliased, canonical_ignored>>

Max(a, b) == IF a >= b THEN a ELSE b
Bag1(x) == SetToBag({x})

\* ------------------------------------------------------------ robots policy
\* check_robots_txt returns None, or a parser holding the Disallow rules of
\* the wildcard agent.
NoPolicy == [present |-> FALSE, disallow |-> {}]
\* How the request for robots.txt may end: a 200 answer with its Disallow
\* rules, another status, or an exception (timeout, network error).
RobotsAnswers ==
    { [status |-> "200", rules |-> d] : d \in { {<<"/", "about">>}, {<<"/">>} } }
    \cup { [status |-> "404", rules |-> {}], [status |-> "exception", rules |-> {}] }
check_robots_txt(answer) ==
    IF answer.status = "200" THEN [present |-> TRUE, disallow |-> answer.rules]
    ELSE NoPolicy

IsPrefix(p, s) == Len(p) <= Len(s) /\ SubSeq(s, 1, Len(p)) = p
\* RobotFileParser.can_fetch("*", url): the empty path is matched as "/".
RobotsPath(url) == IF UrlPath(url) = <<>> THEN <<"/">> ELSE UrlPath(url)
can_fetch(rp, url) == ~\E rule \in rp.disallow : IsPrefix(rule, RobotsPath(url))
\* Variant: the policy is never consulted.
DisallowedNever(rp, url) == FALSE
\* robots_parser and not robots_parser.can_fetch("*", url)
Disallowed(rp, url) == rp.present /\ ~can_fetch(rp, url)

\* --------------------------------------------------------- page processing
\* priority = max(0.1, 0.8 - depth * 0.1), rendered f"{priority:.1f}".
\* Variant: the floor of 0.1 is left out.
PriorityTenthsNoFloor(depth) == Max(0, 8 - depth)
PriorityTenths(depth) == Max(1, 8 - depth)
Digit == <<"0", "1", "2", "3", "4", "5", "6", "7", "8", "9">>
FormatTenths(t) == <<Digit[(t \div 10) + 1], ".", Digit[(t % 10) + 1]>>
ChangeFreq(depth) == IF depth <= 1 THEN "daily" ELSE "weekly"

PageRecord(url, depth) ==
    [loc |-> url, lastmod |-> "today",
     changefreq |-> ChangeFreq(depth),
     priority |-> FormatTenths(PriorityTenths(depth))]

\* The condition under which a link joins new_urls.
KeepLink(cleaned_url, vis, cfg) ==
    /\ cleaned_url # None
    /\ cleaned_url \notin vis
    /\ ~\E pattern \in cfg.exclude_patterns : Contains(cleaned_url, pattern)
    /\ \E ext \in cfg.valid_extensions : EndsWith(cleaned_url, ext)
    /\ ~BinarySuffix(cleaned_url)

\* for link in soup.find_all('a', href=True): the links in document order,
\* acc the new_urls gathered so far.  urljoin raising ends the loop with
\* what was gathered.
RECURSIVE ExtractLinks(_, _, _, _, _, _)
ExtractLinks(links, url, depth, vis, cfg, acc) ==
    IF links = <<>> THEN [urls |-> acc, raised |-> FALSE, dropped |-> FALSE]
    ELSE IF urljoin(url, Head(links)) = ValueError
         THEN [urls |-> acc, raised |-> TRUE, dropped |-> FALSE]
    ELSE LET cleaned_url == clean_url(urljoin(url, Head(links)), url)
             rest == ExtractLinks(Tail(links), url, depth, vis, cfg,
                        IF KeepLink(cleaned_url, vis, cfg)
                        THEN acc \cup {<<cleaned_url, depth + 1>>} ELSE acc)
         IN  [rest EXCEPT !.dropped = @ \/ cleaned_url = None]

\* Variants: the test without its visited half, and without its depth half.
SkipTaskDepthOnly(url, depth, vis, cfg) == depth > cfg.max_depth
SkipTaskVisitedOnly(url, depth, vis, cfg) == url \in vis

\* url in visited or depth > config['max_depth']
SkipTask(url, depth, vis, cfg) == url \in vis \/ depth > cfg.max_depth

\* Variant: the URL is not remembered.
MarkVisitedNot(vis, url) == vis
\* visited.add(url)
MarkVisited(vis, url) == vis \cup {url}

\* AsyncLimiter(requests_per_second, 1).has_capacity()
HasCapacity(level, cfg) == level + 1 <= cfg.requests_per_second

\* Variant: the coroutines of the next round are scheduled as they are made.
ScheduledEager == tasks (+) new_tasks
\* The tasks the event loop may run: those as_completed wrapped.  The
\* coroutines in new_tasks are objects nobody has scheduled.
Scheduled == tasks

\* ----------------------------------------------------------------- actions
Init ==
    /\ pc = "input"
    /\ config \in Configs
    /\ site_url = None
    /\ output_dir = None
    /\ robots_parser = NoPolicy
    /\ visited = {}
    /\ sitemap_urls = <<>>
    /\ tasks = EmptyBag
    /\ completed = <<>>
    /\ new_tasks = EmptyBag
    /\ limiter_level = 0
    /\ files = <<>>
    /\ issued = EmptyBag
    /\ marked = {}
    /\ raised = {}
    /\ contributed = {}
    /\ rec_depth = <<>>
    /\ skipped = {}
    /\ cross_host = FALSE
    /\ notice = "nothing"
    /\ generation = 0
    /\ aliased = {}
    /\ canonical_ignored = FALSE

\* validators.url(url): the text has an http(s) scheme and a host.
ValidUrl(raw) == HasScheme(raw) /\ raw[1] \in {"http", "https"} /\ UrlNetloc(raw) # <<>>
\* url.rstrip('/')
RECURSIVE RStripSlash(_)
RStripSlash(s) ==
    IF s # <<>> /\ Last(s) \in {"/", "//"} THEN RStripSlash(SubSeq(s, 1, Len(s) - 1))
    ELSE s
validate_url(raw) == IF ValidUrl(raw) THEN RStripSlash(raw) ELSE ValueError

\* logger = setup_logging(output_dir) follows the mkdir of output_dir at
\* once: the local name logger is bound exactly when the directory is made.
LoggerBound(dir) == dir # None
\* except ValueError as ve: logger.error(...) comes before the print; with
\* logger unbound the handler raises UnboundLocalError and prints nothing.
OnValueError(logger_bound) ==
    IF logger_bound THEN "Error: Invalid URL format" ELSE "UnboundLocalError"

\* create_sitemap up to the crawl: input, validate_url, mkdir of the domain
\* directory, setup_logging, the fresh sitemap_urls and visited.  On a
\* ValueError the handler reads logger, which is bound only after
\* validation: the run ends in that handler.
ReadSeed ==
    /\ pc = "input"
    /\ \E raw \in SeedInputs :
         IF validate_url(raw) = ValueError
         THEN /\ pc' = "failed"
              /\ notice' = OnValueError(LoggerBound(output_dir))
              /\ UNCHANGED <<site_url, output_dir>>
         ELSE /\ site_url' = validate_url(raw)
              /\ output_dir' = UrlNetloc(validate_url(raw))
              /\ pc' = "robots"
              /\ UNCHANGED notice
    /\ UNCHANGED <<config, robots_parser, files>>
    /\ UNCHANGED crawl_vars

\* check_robots_txt, then tasks = [crawl_url(site_url, 0, ...)] and the
\* first as_completed(tasks).
CheckRobots ==
    /\ pc = "robots"
    /\ \E answer \in RobotsAnswers : robots_parser' = check_robots_txt(answer)
    /\ tasks' = Bag1([url |-> site_url, depth |-> 0, st |-> "new"])
    /\ generation' = 1
    /\ pc' = "crawl"
    /\ UNCHANGED <<config, site_url, output_dir, files, visited, sitemap_urls,
                   completed, new_tasks, limiter_level, issued, marked, raised,
                   contributed, rec_depth, skipped, cross_host, notice>>
    /\ UNCHANGED canon_vars

\* Every scheduled task has run its first step.  as_completed puts the
\* first step of each task on the ready queue at once, and the event loop
\* runs the whole queue before it looks at a timer or a socket: no wake-up
\* of the limiter, no answer and no turn of the collecting loop comes
\* before the last task of the round has started.
AllStarted == \A s \in BagToSet(Scheduled) : s.st # "new"

\* Task t leaves the pool it is scheduled from.
PoolsWithout(t) ==
    IF BagIn(t, tasks) THEN <<tasks (-) Bag1(t), new_tasks>>
    ELSE <<tasks, new_tasks (-) Bag1(t)>>

\* A task returns: the future completes with its result.
Return(pools, result) ==
    /\ tasks' = pools[1]
    /\ new_tasks' = pools[2]
    /\ completed' = Append(completed, result)

\* The first step of crawl_url, up to its first suspension: the visited and
\* depth test, visited.add, the robots test, and the limiter, which admits
\* the task at once when the bucket has room (session.get is then issued)
\* and suspends it otherwise.
StartTask(t) ==
    /\ pc = "crawl"
    /\ t \in BagToSet(Scheduled)
    /\ t.st = "new"
    /\ IF SkipTask(t.url, t.depth, visited, config)
       THEN /\ Return(PoolsWithout(t), {})
            /\ skipped' = IF t.url \in visited
                           THEN skipped \cup {<<t.url, t.depth>>} ELSE skipped
            /\ UNCHANGED <<visited, marked, limiter_level, issued>>
       ELSE /\ visited' = MarkVisited(visited, t.url)
            /\ UNCHANGED skipped
            /\ marked' = marked \cup {<<t.url, t.depth>>}
            /\ IF Disallowed(robots_parser, t.url)
               THEN /\ Return(PoolsWithout(t), {})
                    /\ UNCHANGED <<limiter_level, issued>>
               ELSE IF HasCapacity(limiter_level, config)
               THEN /\ limiter_level' = limiter_level + 1
                    /\ issued' = issued (+) Bag1(<<t.url, t.depth>>)
                    /\ tasks' = PoolsWithout(t)[1] (+) Bag1([t EXCEPT !.st = "fetching"])
                    /\ new_tasks' = PoolsWithout(t)[2]
                    /\ UNCHANGED completed
               ELSE /\ tasks' = PoolsWithout(t)[1] (+) Bag1([t EXCEPT !.st = "waiting"])
                    /\ new_tasks' = PoolsWithout(t)[2]
                    /\ UNCHANGED <<limiter_level, issued, completed>>
    /\ UNCHANGED <<pc, config, site_url, output_dir, robots_parser, files,
                   sitemap_urls, raised, contributed, rec_depth, cross_host,
                   notice, generation>>
    /\ UNCHANGED canon_vars

\* The bucket leaks as time passes: one request's worth while the tasks
\* wait, none within the single run of the ready queue that starts them.
LimiterLeak ==
    /\ pc = "crawl"
    /\ AllStarted
    /\ limiter_level > 0
    /\ limiter_level' = limiter_level - 1
    /\ UNCHANGED <<pc, config, site_url, output_dir, robots_parser, files, visited,
                   sitemap_urls, tasks, completed, new_tasks, issued, marked,
                   raised, contributed, rec_depth, skipped, cross_host,
                   notice, generation>>
    /\ UNCHANGED canon_vars

\* A task suspended in limiter.acquire is woken with room in the bucket and
\* issues session.get.  Leaving the async with block gives nothing back.
LimiterAdmit(t) ==
    /\ pc = "crawl"
    /\ t \in BagToSet(tasks)
    /\ t.st = "waiting"
    /\ AllStarted
    /\ HasCapacity(limiter_level, config)
    /\ limiter_level' = limiter_level + 1
    /\ issued' = issued (+) Bag1(<<t.url, t.depth>>)
    /\ tasks' = (tasks (-) Bag1(t)) (+) Bag1([t EXCEPT !.st = "fetching"])
    /\ UNCHANGED <<pc, config, site_url, output_dir, robots_parser, files, visited,
                   sitemap_urls, completed, new_tasks, marked, raised,
                   contributed, rec_depth, skipped, cross_host,
                   notice, generation>>
    /\ UNCHANGED canon_vars

\* What a served page holds: the canonical href and the <a href> list.
Pages == [canonical : CanonicalHrefs, links : LinkLists]

\* clean_url dropped a URL that names another host.
OtherHost(url, base_url) ==
    ~ParseRaises(url) /\ UrlNetloc(url) # <<>> /\ clean_url(url, base_url) = None

\* The canonical test: canonical and canonical.get('href'), then
\* canonical_url and canonical_url != url.
IsAlias(canonical_url, url) == canonical_url # None /\ canonical_url # url

\* crawl_url from the parsed body to its return, as the changes it makes:
\* record (the page is appended to sitemap_urls), alias (the URL added to
\* visited, None when none is), urls (the set returned), exc (the except
\* clause ran), other_host (a URL of another host was dropped).
ProcessPage(url, depth, page, vis, cfg) ==
    LET canonical_url ==
            IF page.canonical = None THEN None ELSE clean_url(page.canonical, url)
        ex == ExtractLinks(page.links, url, depth, vis, cfg, {})
        canon_other == page.canonical # None /\ OtherHost(page.canonical, url)
    IN  IF canonical_url = ValueError
        THEN [record |-> FALSE, alias |-> None, urls |-> {}, exc |-> TRUE,
              other_host |-> FALSE]
        ELSE IF IsAlias(canonical_url, url)
        THEN [record |-> FALSE, alias |-> canonical_url, urls |-> {}, exc |-> FALSE,
              other_host |-> FALSE]
        ELSE [record |-> TRUE, alias |-> None, urls |-> ex.urls, exc |-> ex.raised,
              other_host |-> canon_other \/ ex.dropped]

\* Variant: the canonical target is not remembered.
AddCanonicalNot(vis, canonical_url) == vis
\* visited.add(canonical_url)
AddCanonical(vis, canonical_url) == vis \cup {canonical_url}

\* The page has a canonical link whose href, resolved against the page's
\* own address, names another address.
DeclaresOther(href, url) ==
    /\ href # None
    /\ urljoin(url, href) # ValueError
    /\ urljoin(url, href) # url

\* The rest of crawl_url, from the answer to session.get to the return.
\* Nothing shared is read or written between the status line and the body,
\* so the two waits are one step.
FetchReturn(t) ==
    /\ pc = "crawl"
    /\ t \in BagToSet(tasks)
    /\ t.st = "fetching"
    /\ AllStarted
    /\ \/ \* session.get or response.text() raises
          /\ raised' = raised \cup {t.url}
          /\ Return(<<tasks (-) Bag1(t), new_tasks>>, {})
          /\ UNCHANGED <<visited, sitemap_urls, rec_depth, contributed, cross_host>>
          /\ UNCHANGED canon_vars
       \/ \* status != 200, or the content type is not text/html
          /\ Return(<<tasks (-) Bag1(t), new_tasks>>, {})
          /\ UNCHANGED <<visited, sitemap_urls, rec_depth, raised, contributed,
                         cross_host>>
          /\ UNCHANGED canon_vars
       \/ \* a 200 text/html answer
          \E page \in Pages :
            LET r == ProcessPage(t.url, t.depth, page, visited, config)
            IN  /\ visited' = IF r.alias = None THEN visited
                              ELSE AddCanonical(visited, r.alias)
                /\ sitemap_urls' = IF r.record
                                   THEN Append(sitemap_urls, PageRecord(t.url, t.depth))
                                   ELSE sitemap_urls
                /\ rec_depth' = IF r.record THEN Append(rec_depth, t.depth)
                                ELSE rec_depth
                /\ raised' = IF r.exc THEN raised \cup {t.url} ELSE raised
                /\ contributed' = IF r.urls # {} THEN contributed \cup {t.url}
                                  ELSE contributed
                /\ cross_host' = (cross_host \/ r.other_host)
                /\ aliased' = IF r.alias = None THEN aliased
                              ELSE aliased \cup {[url |-> t.url, target |-> r.alias,
                                                  first |-> r.alias \notin visited]}
                /\ canonical_ignored' =
                       (\/ canonical_ignored
                        \/ r.record /\ DeclaresOther(page.canonical, t.url))
                /\ Return(<<tasks (-) Bag1(t), new_tasks>>, r.urls)
    /\ UNCHANGED <<pc, config, site_url, output_dir, robots_parser, files,
                   limiter_level, issued, marked, skipped, notice,
                   generation>>

\* One turn of for future in asyncio.as_completed(tasks): the loop takes the
\* next finished result and makes one coroutine per discovered pair.
Collect ==
    /\ pc = "crawl"
    /\ completed # <<>>
    /\ AllStarted
    /\ new_tasks' = new_tasks (+)
           SetToBag({ [url |-> x[1], depth |-> x[2], st |-> "new"] : x \in Head(completed) })
    /\ completed' = Tail(completed)
    /\ UNCHANGED <<pc, config, site_url, output_dir, robots_parser, files, visited,
                   sitemap_urls, tasks, limiter_level, issued, marked, raised,
                   contributed, rec_depth, skipped, cross_host,
                   notice, generation>>
    /\ UNCHANGED canon_vars

RoundOver == BagToSet(tasks) = {} /\ completed = <<>>

\* tasks = new_tasks, and while tasks: goes round again.
NextGeneration ==
    /\ pc = "crawl"
    /\ RoundOver
    /\ BagToSet(new_tasks) # {}
    /\ tasks' = new_tasks
    /\ new_tasks' = EmptyBag
    /\ generation' = generation + 1
    /\ UNCHANGED <<pc, config, site_url, output_dir, robots_parser, files, visited,
                   sitemap_urls, completed, limiter_level, issued, marked, raised,
                   contributed, rec_depth, skipped, cross_host,
                   notice>>
    /\ UNCHANGED canon_vars

\* while tasks: ends on the empty list.
CrawlDone ==
    /\ pc = "crawl"
    /\ RoundOver
    /\ BagToSet(new_tasks) = {}
    /\ pc' = "encode"
    /\ UNCHANGED <<config, site_url, output_dir, robots_parser, files, notice>>
    /\ UNCHANGED crawl_vars

\* ----------------------------------------------------------------- encoder
\* The order of str on the tokens a loc is made of.
TokenOrder ==
    <<"/", "//", ":", "about", "admin", "contact", "example.com", "external.com",
      "file.pdf", "http", "https", "page">>
TokenRank(tok) == CHOOSE i \in 1..Len(TokenOrder) : TokenOrder[i] = tok

\* a < b on strings: the first differing token decides, a proper prefix is
\* smaller.
RECURSIVE LocLess(_, _)
LocLess(a, b) ==
    IF b = <<>> THEN FALSE
    ELSE IF a = <<>> THEN TRUE
    ELSE IF Head(a) = Head(b) THEN LocLess(Tail(a), Tail(b))
    ELSE TokenRank(Head(a)) < TokenRank(Head(b))

\* sorted(records, key=lambda x: x['loc']): stable, so a record goes after
\* the records whose loc is not greater.
RECURSIVE InsertByLoc(_, _)
InsertByLoc(rec, sorted) ==
    IF sorted = <<>> THEN <<rec>>
    ELSE IF LocLess(rec.loc, Head(sorted).loc) THEN <<rec>> \o sorted
    ELSE <<Head(sorted)>> \o InsertByLoc(rec, Tail(sorted))

RECURSIVE SortByLoc(_)
SortByLoc(records) ==
    IF records = <<>> THEN <<>>
    ELSE InsertByLoc(Last(records), SortByLoc(SubSeq(records, 1, Len(records) - 1)))

Min(a, b) == IF a <= b THEN a ELSE b

\* Variant: the last, shorter slice is not taken.
NumChunksFloor(records, size) == Len(records) \div size
\* range(0, len(sitemap_urls), max_urls_per_sitemap), counted from 1.
NumChunks(records, size) == (Len(records) + size - 1) \div size
\* sitemap_urls[i:i + max_urls_per_sitemap] for the k-th i of the range.
ChunkSlice(records, size, k) ==
    SubSeq(records, (k - 1) * size + 1, Min(k * size, Len(records)))
SitemapChunks(records, size) ==
    [k \in 1..NumChunks(records, size) |-> ChunkSlice(records, size, k)]

\* File names, and Path.with_suffix('.xml.gz') on a name ending in .xml.
HtmlName == <<"sitemap", ".html">>
SitemapName == <<"sitemap", ".xml">>
ChunkName(i) == <<"sitemap-", Digit[i + 1], ".xml">>
WithSuffixXmlGz(name) == SubSeq(name, 1, Len(name) - 1) \o <<".xml", ".gz">>

\* The urlset document of a list of records, its url elements in loc order.
UrlSet(records) == [kind |-> "urlset", entries |-> SortByLoc(records)]
\* gzip of a written file.
Gzip(content) == [kind |-> "gzip", of |-> content]
\* The loc of an index entry: f"{site_url}/{sitemap_filename.name}.gz".
IndexLoc(seed, name) == seed \o <<"/">> \o name \o <<".gz">>
IndexEntry(seed, i) == [loc |-> IndexLoc(seed, ChunkName(i)), lastmod |-> "today"]

\* Variant: the index branch is taken for a single chunk too.
NeedsIndexFromOne(chunks) == Len(chunks) >= 1
\* if len(sitemap_chunks) > 1
NeedsIndex(chunks) == Len(chunks) > 1

\* Variant: the accumulator never counts as empty.
EmptyResultNever(urls) == FALSE
\* not sitemap_urls
EmptyResult(urls) == urls = <<>>

\* if not sitemap_urls: the notice, and return.
NoUrls ==
    /\ pc = "encode"
    /\ EmptyResult(sitemap_urls)
    /\ notice' = "No URLs found to include in sitemap"
    /\ pc' = "done"
    /\ UNCHANGED <<config, site_url, output_dir, robots_parser, files>>
    /\ UNCHANGED crawl_vars

\* generate_html_sitemap: one table of all records sorted by loc.
GenerateHtml ==
    /\ pc = "encode"
    /\ ~EmptyResult(sitemap_urls)
    /\ files' = files @@ (HtmlName :> [kind |-> "html", entries |-> SortByLoc(sitemap_urls)])
    /\ pc' = "chunks"
    /\ UNCHANGED <<config, site_url, output_dir, robots_parser, notice>>
    /\ UNCHANGED crawl_vars

\* The files the indexed branch writes for chunks 1..n.
RECURSIVE ChunkFiles(_, _)
ChunkFiles(chunks, n) ==
    IF n = 0 THEN <<>>
    ELSE ChunkFiles(chunks, n - 1)
           @@ (ChunkName(n) :> UrlSet(chunks[n]))
           @@ (WithSuffixXmlGz(ChunkName(n)) :> Gzip(UrlSet(chunks[n])))

\* More than one chunk: sitemap-i.xml and its .gz for each chunk, and the
\* sitemap index as sitemap.xml.
WriteIndexed ==
    /\ pc = "chunks"
    /\ LET chunks == SitemapChunks(sitemap_urls, config.max_urls_per_sitemap)
       IN  /\ NeedsIndex(chunks)
           /\ files' = (SitemapName :>
                          [kind |-> "sitemapindex",
                           entries |-> [i \in 1..Len(chunks) |-> IndexEntry(site_url, i)]])
                       @@ ChunkFiles(chunks, Len(chunks)) @@ files
    /\ notice' = "Sitemap index generated"
    /\ pc' = "done"
    /\ UNCHANGED <<config, site_url, output_dir, robots_parser>>
    /\ UNCHANGED crawl_vars

\* One chunk: the urlset of all records as sitemap.xml, and its .gz.
WriteSingle ==
    /\ pc = "chunks"
    /\ ~NeedsIndex(SitemapChunks(sitemap_urls, config.max_urls_per_sitemap))
    /\ files' = (SitemapName :> UrlSet(sitemap_urls))
                @@ (WithSuffixXmlGz(SitemapName) :> Gzip(UrlSet(sitemap_urls)))
                @@ files
    /\ notice' = "Sitemap generated"
    /\ pc' = "done"
    /\ UNCHANGED <<config, site_url, output_dir, robots_parser>>
    /\ UNCHANGED crawl_vars

\* ----------------------------------------------------------- specification
TaskRecords ==
    BagToSet(tasks) \cup BagToSet(new_tasks)

Next ==
    \/ ReadSeed
    \/ CheckRobots
    \/ \E t \in TaskRecords : StartTask(t)
    \/ LimiterLeak
    \/ \E t \in TaskRecords : LimiterAdmit(t)
    \/ \E t \in TaskRecords : FetchReturn(t)
    \/ Collect
    \/ NextGeneration
    \/ CrawlDone
    \/ NoUrls
    \/ GenerateHtml
    \/ WriteIndexed
    \/ WriteSingle

Spec == Init /\ [][Next]_vars

\* The steps of the crawl loop. The event loop runs every ready coroutine,
\* every fetch ends with an answer or an exception, and the bucket of the
\* limiter leaks with time, so a step that stays possible is taken.
CrawlStep ==
    \/ \E t \in TaskRecords : StartTask(t)
    \/ LimiterLeak
    \/ \E t \in TaskRecords : LimiterAdmit(t)
    \/ \E t \in TaskRecords : FetchReturn(t)
    \/ Collect
    \/ NextGeneration
    \/ CrawlDone
FairSpec == Spec /\ WF_vars(CrawlStep)

\* ------------------------------------------------- the record of one page
\* Lines 107-115 on their own, at depths beyond those a small site reaches:
\* the accumulator starts empty and takes one record per step.
InitPriority ==
    /\ pc = "priority"
    /\ config \in Configs
    /\ site_url = <<"https", ":", "//", "example.com">>
    /\ output_dir = None
    /\ robots_parser = NoPolicy
    /\ visited = {}
    /\ sitemap_urls = <<>>
    /\ tasks = EmptyBag
    /\ completed = <<>>
    /\ new_tasks = EmptyBag
    /\ limiter_level = 0
    /\ files = <<>>
    /\ issued = EmptyBag
    /\ marked = {}
    /\ raised = {}
    /\ contributed = {}
    /\ rec_depth = <<>>
    /\ skipped = {}
    /\ cross_host = FALSE
    /\ notice = "nothing"
    /\ generation = 0
    /\ aliased = {}
    /\ canonical_ignored = FALSE

AppendRecord ==
    /\ pc = "priority"
    /\ Len(sitemap_urls) < MaxRecords
    /\ \E depth \in 0..MaxRecordDepth :
          /\ sitemap_urls' = Append(sitemap_urls, PageRecord(site_url, depth))
          /\ rec_depth' = Append(rec_depth, depth)
    /\ UNCHANGED <<pc, config, site_url, output_dir, robots_parser, visited, tasks,
                   completed, new_tasks, limiter_level, files, issued, marked,
                   raised, contributed, skipped, cross_host, notice, generation>>
    /\ UNCHANGED canon_vars

SpecPriority == InitPriority /\ [][AppendRecord]_vars

\* ------------------------------------------------------------- properties
Range(f) == { f[x] : x \in DOMAIN f }
Unfinished == BagToSet(tasks)
Locs == { sitemap_urls[i].loc : i \in 1..Len(sitemap_urls) }
ResultUrls == { x[1] : x \in UNION Range(completed) }
TaskUrls == { t.url : t \in BagToSet(tasks) \cup BagToSet(new_tasks) }
Fetching == { t \in BagToSet(tasks) : t.st = "fetching" }
InFlight == BagCardinality([t \in Fetching |-> CopiesIn(t, tasks)])

\* C1: a page fetch is issued at most once per URL, and the URL is in the
\* visited set once its fetch is issued, also when two pages of one
\* generation discover the same URL.
C1_FetchOncePerUrl ==
    \A x \in BagToSet(issued) :
        /\ CopiesIn(x, issued) = 1
        /\ x[1] \in visited
        /\ \A y \in BagToSet(issued) : y[1] = x[1] => y = x

\* Two tasks of one generation were made for the same URL: one has issued
\* its fetch, the other has not started yet.
C1_Witness ==
    \E t \in BagToSet(tasks) :
        t.st = "new" /\ t.depth >= 2 /\ <<t.url, t.depth>> \in BagToSet(issued)

\* C2: no task of depth d+1 marks its URL visited or issues its fetch
\* while a task of depth d is unfinished.
C2_GenerationBarrier ==
    \A t \in Unfinished :
        /\ \A m \in marked : m[2] <= t.depth
        /\ \A x \in BagToSet(issued) : x[2] <= t.depth

\* A fetch of depth 2 is in flight after two fetches of depth 1 were issued.
C2_Witness ==
    /\ \E t \in Fetching : t.depth = 2
    /\ Cardinality({ x \in BagToSet(issued) : x[2] = 1 }) >= 2

\* C3: the page fetches issued and not completed never exceed the
\* configured max_concurrent_requests.
C3_ConcurrencyBounded == InFlight <= config.max_concurrent_requests

\* C4: every URL in the visited set, in a frontier and in a record has the
\* host of the seed.
C4_SameHost ==
    site_url # None =>
        \A u \in visited \cup TaskUrls \cup ResultUrls \cup Locs :
            UrlNetloc(u) = UrlNetloc(site_url)

\* A page holding a link or a canonical target on another host was recorded.
C4_Witness == cross_host /\ sitemap_urls # <<>> /\ Cardinality(visited) >= 2

\* C5: the accumulator never holds two records with the same loc.
C5_UniqueLoc ==
    \A i, j \in 1..Len(sitemap_urls) :
        sitemap_urls[i].loc = sitemap_urls[j].loc => i = j

\* Two tasks were made for one URL: the visited test turned one away and
\* the other made the record.
C5_Witness ==
    \E x \in skipped : x[1] \in Locs /\ <<x[1], x[2]>> \in BagToSet(issued)

\* C6: every record was made at a depth in 0..max_depth, and no fetch is
\* issued for a task deeper than max_depth.
C6_DepthBounded ==
    /\ \A i \in 1..Len(rec_depth) : rec_depth[i] \in 0..config.max_depth
    /\ \A x \in BagToSet(issued) : x[2] <= config.max_depth

\* The round of depth max_depth + 1 runs: one of its tasks has returned
\* and another is still scheduled.
C6_Witness ==
    /\ completed # <<>>
    /\ \E t \in BagToSet(tasks) : t.depth > config.max_depth

\* C7: a URL whose task ran into an exception has no record and returned
\* no discovered URLs.
C7_ExceptionLeavesNothing ==
    \A u \in raised : u \notin Locs /\ u \notin contributed

\* The chunk documents the encoder wrote, in order 1..n.
IsIndexed == SitemapName \in DOMAIN files /\ files[SitemapName].kind = "sitemapindex"
ChunkNumbers == { i \in 1..9 : ChunkName(i) \in DOMAIN files }
EmittedChunks ==
    IF IsIndexed
    THEN [i \in 1..Cardinality(ChunkNumbers) |-> files[ChunkName(i)].entries]
    ELSE <<files[SitemapName].entries>>

RECURSIVE Concat(_)
Concat(seqs) == IF seqs = <<>> THEN <<>> ELSE Head(seqs) \o Concat(Tail(seqs))

IsSortedByLoc(records) ==
    \A i, j \in 1..Len(records) : i < j => ~LocLess(records[j].loc, records[i].loc)

\* C8: the chunks in order 1..n concatenate to the full result sorted
\* ascending by loc.
C8_ChunksGloballySorted ==
    pc = "done" /\ sitemap_urls # <<>> => IsSortedByLoc(Concat(EmittedChunks))

\* C9: each emitted chunk holds between 1 and max_urls_per_sitemap records,
\* and every accumulated record is in exactly one chunk.
C9_ChunksPartition ==
    pc = "done" /\ sitemap_urls # <<>> =>
        /\ \A k \in 1..Len(EmittedChunks) :
               Len(EmittedChunks[k]) \in 1..config.max_urls_per_sitemap
        /\ Len(Concat(EmittedChunks)) = Len(sitemap_urls)
        /\ \A i \in 1..Len(sitemap_urls) :
               Cardinality({ p \in 1..Len(Concat(EmittedChunks)) :
                               Concat(EmittedChunks)[p] = sitemap_urls[i] }) = 1

\* The result was split and its last chunk is shorter than the others.
C9_Witness ==
    /\ pc = "done"
    /\ IsIndexed
    /\ Len(EmittedChunks) >= 2
    /\ Len(EmittedChunks[Len(EmittedChunks)]) < config.max_urls_per_sitemap

\* C10: sitemap.xml is a sitemap index exactly when the records exceed one
\* chunk, with one entry per chunk n pointing to {seed}/sitemap-{n}.xml.gz;
\* otherwise it is the urlset of all records and no sitemap-{n} file exists.
ExpectedChunkCount ==
    (Len(sitemap_urls) + config.max_urls_per_sitemap - 1)
        \div config.max_urls_per_sitemap
ChunkGzText(n) == <<"sitemap-", Digit[n + 1], ".xml", ".gz">>
C10_IndexIffSplit ==
    pc = "done" /\ sitemap_urls # <<>> =>
        IF ExpectedChunkCount > 1
        THEN /\ files[SitemapName].kind = "sitemapindex"
             /\ Len(files[SitemapName].entries) = ExpectedChunkCount
             /\ \A n \in 1..ExpectedChunkCount :
                    /\ files[SitemapName].entries[n].loc
                           = site_url \o <<"/">> \o ChunkGzText(n)
                    /\ ChunkGzText(n) \in DOMAIN files
                    /\ files[ChunkGzText(n)].kind = "gzip"
             /\ <<"sitemap", ".xml", ".gz">> \notin DOMAIN files
        ELSE /\ files[SitemapName].kind = "urlset"
             /\ files[SitemapName].entries = SortByLoc(sitemap_urls)
             /\ DOMAIN files
                  = { SitemapName, <<"sitemap", ".xml", ".gz">>, HtmlName }

\* An index of three chunks was written.
C10_Witness ==
    pc = "done" /\ IsIndexed /\ Len(files[SitemapName].entries) = 3

\* C11: a seed that fails validation ends the run with the validation error
\* reported to the caller as such, with no crawl begun and no directory or
\* file written.
C11_InvalidSeedReported ==
    pc = "failed" =>
        /\ notice = "Error: Invalid URL format"
        /\ output_dir = None
        /\ DOMAIN files = {}
        /\ visited = {} /\ BagToSet(issued) = {} /\ robots_parser = NoPolicy

\* C12: a crawl that leaves the accumulator empty ends with the notice that
\* no URLs were found, and no sitemap.xml, .gz, sitemap-n.xml or
\* sitemap.html is written.
C12_EmptyResultWritesNothing ==
    (pc = "done" /\ sitemap_urls = <<>>) =>
        /\ notice = "No URLs found to include in sitemap"
        /\ DOMAIN files = {}
C12_Witness ==
    /\ pc = "done" /\ sitemap_urls = <<>>
    /\ BagToSet(issued) # {}
    /\ notice = "No URLs found to include in sitemap"

\* C13: a page whose canonical link names the page itself is recorded and
\* its links are followed: the home page of the seed https://example.com,
\* declaring the canonical href https://example.com/, is never treated as
\* an alias.
C13_SelfCanonicalRecorded ==
    \A a \in aliased : ~(a.url = site_url /\ a.target = site_url \o <<"/">>)

\* The visited URLs a task added for itself, and those a canonical
\* declaration added before any task had.
MarkedUrls == { m[1] : m \in marked }
CanonicalFirst == { a.target : a \in { x \in aliased : x.first } }

\* C14 as stated: at the end of the crawl the visited set has as many
\* elements as fetch attempts were issued.
C14_VisitedEqualsFetches ==
    pc = "encode" => Cardinality(visited) = BagCardinality(issued)

\* C14 amended: at the end of the crawl the fetch attempts are as many as
\* the visited URLs that a task added for itself and robots.txt did not
\* disallow; the visited set holds besides them exactly the disallowed
\* URLs and the canonical targets no task had added.
C14_FetchesAreAdmittedVisits ==
    pc = "encode" =>
        /\ BagCardinality(issued) =
               Cardinality({ u \in MarkedUrls : ~Disallowed(robots_parser, u) })
        /\ visited = MarkedUrls \cup CanonicalFirst
        /\ MarkedUrls \cap CanonicalFirst = {}
        /\ BagCardinality(issued) <= Cardinality(visited)
C14_Witness ==
    /\ pc = "encode"
    /\ BagCardinality(issued) >= 2
    /\ Cardinality(visited) > BagCardinality(issued)
    /\ CanonicalFirst # {}

\* The text Python prints for f"{max(0.1, 0.8 - depth * 0.1):.1f}".
PriorityText(depth) ==
    CASE depth = 0 -> <<"0", ".", "8">>
      [] depth = 1 -> <<"0", ".", "7">>
      [] depth = 2 -> <<"0", ".", "6">>
      [] depth = 3 -> <<"0", ".", "5">>
      [] depth = 4 -> <<"0", ".", "4">>
      [] depth = 5 -> <<"0", ".", "3">>
      [] depth = 6 -> <<"0", ".", "2">>
      [] OTHER -> <<"0", ".", "1">>

\* C15: the priority of a record is max(0.1, 0.8 - 0.1 * depth) written
\* with one fractional digit: 0.8 at depth 0, 0.5 at depth 3, and 0.1 at
\* every depth from 7 on.
C15_PriorityOfDepth ==
    \A i \in 1..Len(sitemap_urls) :
        LET priority == sitemap_urls[i].priority
            depth == rec_depth[i]
        IN  /\ priority = PriorityText(depth)
            /\ Len(priority) = 3 /\ priority[2] = "."
            /\ depth = 0 => priority = <<"0", ".", "8">>
            /\ depth = 3 => priority = <<"0", ".", "5">>
            /\ depth >= 7 => priority = <<"0", ".", "1">>
C15_Witness ==
    /\ pc = "priority"
    /\ \E i, j \in 1..Len(sitemap_urls) :
          /\ rec_depth[i] = 3 /\ sitemap_urls[i].priority = <<"0", ".", "5">>
          /\ rec_depth[j] > 7 /\ sitemap_urls[j].priority = <<"0", ".", "1">>

\* C16: a fetched page that declares a canonical link whose resolved target
\* differs from the page's own URL (a relative href and a target on another
\* host included) gets no record and none of its links joins the next
\* generation.
C16_DeclaredAliasLeavesNothing ==
    ~canonical_ignored

\* C17: a URL that a page's canonical declaration put into the visited set
\* when it was not yet there is never fetched and never gets a record, also
\* when later pages link to it; the alias page gets no record either.
C17_CanonicalTargetNeverCrawled ==
    \A a \in aliased :
        /\ a.url \notin Locs
        /\ a.first =>
              /\ a.target \notin { x[1] : x \in BagToSet(issued) }
              /\ a.target \notin MarkedUrls
              /\ a.target \notin Locs
C17_Witness ==
    \E a \in aliased :
        /\ a.first
        /\ \E x \in skipped : x[1] = a.target /\ x[2] <= config.max_depth
        /\ Locs # {}
        /\ pc = "done"

\* The URLs the loaded policy forbids.
Blocked(url) ==
    /\ robots_parser.present
    /\ \E rule \in robots_parser.disallow : IsPrefix(rule, RobotsPath(url))

\* C18: a fetch is issued for a URL only if the robots policy is absent or
\* permits it; a disallowed URL, the seed included, is marked visited and
\* is never fetched, gets no record and contributes no links; a robots.txt
\* that could not be loaded (another status, a timeout, a network error)
\* leaves the policy absent, and then nothing is blocked.
C18_RobotsGate ==
    /\ \A x \in BagToSet(issued) : ~Blocked(x[1])
    /\ \A u \in MarkedUrls :
          Blocked(u) => /\ u \in visited
                        /\ u \notin Locs
                        /\ u \notin contributed
    /\ \A answer \in RobotsAnswers :
          answer.status # "200" => ~check_robots_txt(answer).present
    /\ (pc = "encode" /\ ~robots_parser.present) =>
          MarkedUrls = { x[1] : x \in BagToSet(issued) }
C18_Witness ==
    /\ pc = "done"
    /\ \E u \in MarkedUrls : Blocked(u) /\ u # site_url
    /\ Locs # {}

\* C19: when every issued fetch ends and every waiting task is admitted in
\* the end, the crawl loop reaches an empty task list and hands over to the
\* encoder, and it never begins more than max_depth + 2 generations, link
\* cycles or not.
C19_CrawlTerminates ==
    /\ [](generation <= config.max_depth + 2)
    /\ (pc = "crawl") ~> (pc = "encode")
C19_Witness ==
    /\ pc = "encode"
    /\ config.max_depth >= 1
    /\ generation = config.max_depth + 2
    /\ \E x \in skipped : x[2] > config.max_depth

\* The accumulator of the run in which the fetches of every generation end
\* in loc order: the records of depth 0, then those of depth 1, and so on,
\* each depth sorted by loc. The limiter admits in any order, so this run
\* is one of the interleavings on the same site.
RECURSIVE AtDepth(_, _)
AtDepth(n, depth) ==
    IF n = 0 THEN <<>>
    ELSE IF rec_depth[n] = depth
         THEN Append(AtDepth(n - 1, depth), sitemap_urls[n])
         ELSE AtDepth(n - 1, depth)
RECURSIVE ByGeneration(_)
ByGeneration(depth) ==
    IF depth < 0 THEN <<>>
    ELSE ByGeneration(depth - 1) \o SortByLoc(AtDepth(Len(sitemap_urls), depth))
ReferenceChunks ==
    LET chunks == SitemapChunks(ByGeneration(config.max_depth),
                                config.max_urls_per_sitemap)
    IN  [k \in 1..Len(chunks) |-> SortByLoc(chunks[k])]

\* C20: the order in which the tasks of one generation are admitted and
\* end has no visible effect: the records are the same set, and every
\* emitted chunk file holds the same records, as in any other interleaving
\* on the same site, the one ending each generation in loc order included.
C20_OrderHasNoEffect ==
    (pc = "done" /\ sitemap_urls # <<>>) =>
        /\ { ByGeneration(config.max_depth)[i] : i \in 1..Len(sitemap_urls) }
              = Range(sitemap_urls)
        /\ EmittedChunks = ReferenceChunks

====
